---------------------------- MODULE Spec2Model ----------------------------
(***************************************************************************)
(* A model of plotting/convergence.py, the entropy reconstruction and      *)
(* convergence analysis script of sad-monte-carlo.                         *)
(*                                                                         *)
(* Three specifications share the module's variables:                      *)
(*                                                                         *)
(*   Spec       one histogram snapshot going through the loader (the       *)
(*              per-run load of lines 170-188 or the per-checkpoint load   *)
(*              of lines 245-255) and, for the per-run load, through       *)
(*              optimize_entropy: the scalar minimiser calling             *)
(*              entropy_boundary_badness, which runs the chain builder     *)
(*              compute_entropy_given_Smin, which calls                    *)
(*              optimize_bin_entropy once per loop iteration.              *)
(*                                                                         *)
(*   SpecTrack  the second loop of the script (lines 164-168, 190-271):    *)
(*              for each run, the choice of the exact density of states,   *)
(*              the module-level parameters it binds, and the loop over    *)
(*              the run's checkpoint files.                                *)
(*                                                                         *)
(*   SpecBeta   one call of find_beta_deltaE (lines 128-145): the root     *)
(*              finder evaluating fn_for_beta at its seeds and iterates.   *)
(*                                                                         *)
(* Energies, entropies and weights are floats in the program.  The control *)
(* flow of the modelled code reads them only through comparisons, so they  *)
(* are integers here.  The results of scipy's root finder and minimiser    *)
(* are chosen nondeterministically: they are library code.                 *)
(* Arrays keep Python's 0-based indices; At and InRange do the indexing.   *)
(***************************************************************************)
EXTENDS Integers, Sequences, FiniteSets, TLC

VARIABLES
    \* ---- Spec: one snapshot ----
    files,               \* the three .dat files on disk: [eb, me, lnw]
    pc,                  \* position in the script
    fault,               \* the exception that ended the script, or "none"
    energy_boundaries,   \* energy_boundaries[base] / energy_b
    mean_energy,         \* mean_energy[base] / mean_e
    lnw,                 \* lnw[base] / my_lnw
    Smin,                \* the anchor of the running compute_entropy_given_Smin
    entropy_boundaries,  \* its local array
    written,             \* the indices of entropy_boundaries assigned so far
    i,                   \* its loop variable
    calls,               \* the optimize_bin_entropy calls it made, in order
    purpose,             \* who called it: "badness" or "final"
    evals,               \* evaluations of entropy_boundary_badness so far
    \* ---- SpecTrack: the runs ----
    tpc,                 \* position in the second loop
    nruns,               \* runs taken from args.base so far
    run,                 \* the run of this iteration: [arg, system, ckpts]
    base,                \* its base name (line 167)
    sigma, N, mean_erfinv_energy, a, b, e1, e2,   \* the module-level parameters
    exact_density_of_states,   \* the function chosen at lines 207-232
    exact_entropy,       \* what line 235 computed: the function and what it read
    todo,                \* the checkpoint files still to process, in loop order
    moves,               \* moves[base]
    \* ---- SpecBeta: one call of find_beta_deltaE ----
    bpc,                 \* position in find_beta_deltaE
    meanE_over_deltaE,   \* its argument
    evaluated,           \* the fn_for_beta evaluations the root finder made
    root                 \* what it returned

snapvars == <<files, pc, fault, energy_boundaries, mean_energy, lnw, Smin,
              entropy_boundaries, written, i, calls, purpose, evals>>
trackvars == <<tpc, nruns, run, base, sigma, N, mean_erfinv_energy, a, b, e1, e2,
               exact_density_of_states, exact_entropy, todo, moves>>
betavars == <<bpc, meanE_over_deltaE, evaluated, root>>
vars == <<snapvars, trackvars, betavars>>

-----------------------------------------------------------------------------
(* Bounds *)

MaxBoundaries == 4     \* longest energy-boundaries file
MaxEnergy == 3         \* energies are 0..MaxEnergy
MaxEvals == 1          \* evaluations the scalar minimiser makes before it returns
MaxRuns == 2           \* runs named on the command line

Energies == 0..MaxEnergy
Anchors == {0, 3}      \* values of Smin the minimiser tries
Roots == {0, 1}        \* values sol.x[0] can take

-----------------------------------------------------------------------------
(* numpy arrays *)

Reverse(s) == [k \in 1..Len(s) |-> s[Len(s) + 1 - k]]

\* np.loadtxt: a file holding one number loads as a 0-dimensional array, any
\* other file as a 1-dimensional array (an empty file as an empty one).
Loadtxt(data) == [ndim |-> IF Len(data) = 1 THEN 0 ELSE 1, data |-> data]

\* a[k] raises IndexError on a 0-dimensional array and outside -len..len-1.
InRange(arr, k) == arr.ndim = 1 /\ k >= -Len(arr.data) /\ k < Len(arr.data)

At(arr, k) == arr.data[IF k < 0 THEN Len(arr.data) + k + 1 ELSE k + 1]

Flip(arr) == [ndim |-> arr.ndim, data |-> Reverse(arr.data)]

ZerosLike(arr) == [ndim |-> arr.ndim, data |-> [k \in 1..Len(arr.data) |-> 0]]

SetAt(arr, k, v) ==
    [arr EXCEPT !.data[IF k < 0 THEN Len(arr.data) + k + 1 ELSE k + 1] = v]

\* The k-th value of a mean-energy or log-weight file is modelled by k: the
\* loader and the chain builder move these values around and never compare them.
Recorded(n) == [k \in 1..n |-> k]


\* A module-level name is unbound until its first assignment (reading it then is
\* a NameError); a bound name holds one value.
Unbound == {}

Bound(v) == {v}

-----------------------------------------------------------------------------
(* The snapshot loader: lines 170-188 (per run) and 245-255 (per checkpoint) *)

\* lines 180-181 left out: the 0-dimensional array goes on as it was loaded
WrapRun_Keep(arr) == arr

\* lines 180-181
WrapRun(arr) ==
    IF arr.ndim = 0 THEN [ndim |-> 1, data |-> <<arr.data[1]>>] ELSE arr

\* lines 249-250
WrapCheckpoint(arr) ==
    IF arr.ndim = 0 THEN [ndim |-> 1, data |-> <<arr.data[1]>>] ELSE arr

\* lines 183-186 with line 185 left out: mean_energy keeps the file's order
NormaliseRun_NoMeanFlip(eb, me, lw) ==
    IF At(eb, 0) < At(eb, -1)
    THEN [eb |-> Flip(eb), me |-> me, lnw |-> Flip(lw)]
    ELSE [eb |-> eb, me |-> me, lnw |-> lw]

\* lines 183-186
NormaliseRun(eb, me, lw) ==
    IF At(eb, 0) < At(eb, -1)
    THEN [eb |-> Flip(eb), me |-> Flip(me), lnw |-> Flip(lw)]
    ELSE [eb |-> eb, me |-> me, lnw |-> lw]

\* lines 252-255
NormaliseCheckpoint(eb, me, lw) ==
    IF At(eb, 0) < At(eb, -1)
    THEN [eb |-> Flip(eb), me |-> Flip(me), lnw |-> Flip(lw)]
    ELSE [eb |-> eb, me |-> me, lnw |-> lw]

ChainIdle ==
    /\ UNCHANGED <<Smin, entropy_boundaries, written, i, calls, purpose, evals>>

\* The script has no try/except: an exception ends it.
Raise(exc) ==
    /\ fault' = exc
    /\ pc' = "crashed"

\* for base in bases: lines 171-188, up to the call of optimize_entropy
LoadRun ==
    /\ pc = "load"
    /\ LET eb == WrapRun(Loadtxt(files.eb))
           me == Loadtxt(files.me)
           lw == Loadtxt(files.lnw)
       IN IF ~(InRange(eb, 0) /\ InRange(eb, -1))
          THEN /\ Raise("IndexError")
               /\ energy_boundaries' = eb
               /\ mean_energy' = me
               /\ lnw' = lw
          ELSE LET nrm == NormaliseRun(eb, me, lw)
               IN /\ energy_boundaries' = nrm.eb
                  /\ mean_energy' = nrm.me
                  /\ lnw' = nrm.lnw
                  /\ pc' = "optimize"
                  /\ fault' = fault
    /\ ChainIdle
    /\ UNCHANGED <<files, trackvars, betavars>>

\* for f in sorted(glob.glob(...)): lines 245-258, up to the call of
\* compute.linear_entropy, which is not part of this script
LoadCheckpoint ==
    /\ pc = "load"
    /\ LET eb == WrapCheckpoint(Loadtxt(files.eb))
           me == Loadtxt(files.me)
           lw == Loadtxt(files.lnw)
       IN IF ~(InRange(eb, 0) /\ InRange(eb, -1))
          THEN /\ Raise("IndexError")
               /\ energy_boundaries' = eb
               /\ mean_energy' = me
               /\ lnw' = lw
          ELSE LET nrm == NormaliseCheckpoint(eb, me, lw)
               IN /\ energy_boundaries' = nrm.eb
                  /\ mean_energy' = nrm.me
                  /\ lnw' = nrm.lnw
                  /\ pc' = "linear_entropy"
                  /\ fault' = fault
    /\ ChainIdle
    /\ UNCHANGED <<files, trackvars, betavars>>

-----------------------------------------------------------------------------
(* The bin-entropy solver: lines 53-98 *)

\* fn_entropy, line 63-64: assert(delta_E > 0).  TRUE when the assertion passes.
fn_entropy(E_i_1, E_i) == E_i_1 - E_i > 0

\* What scipy.optimize.root hands back: it never raises on non-convergence, it
\* returns the last iterate in sol.x with sol.success False.
RootResults == [success : BOOLEAN, x : Roots]

\* optimize_bin_entropy, line 98: return sol.x[0]
optimize_bin_entropy(sol) == sol.x

-----------------------------------------------------------------------------
(* The chain builder and the calibration optimiser: lines 100-122 *)

\* line 102: entropy_boundaries[-1] = Smin
AnchorIndex == -1

\* line 103: range(len(energy_boundaries)-1, 1, -1)
ChainStart(n) == n - 1

ChainStop == 1

\* line 105 handing over entropy_boundaries[i-1], the entry still to be solved
KnownIndex_Unsolved(k) == k - 1

\* line 105: the index of the known entropy handed to optimize_bin_entropy
KnownIndex(k) == k

\* line 105: the index of the entropy the call's result is stored in
SolvedIndex(k) == k - 1

\* line 82: the index of the log-weight handed to the root finder
WeightIndex(k) == k

Norm(arr, k) == IF k < 0 THEN Len(arr.data) + k ELSE k

\* lines 101-102 and the first value of the loop variable
EnterChain(s, why) ==
    /\ Smin' = s
    /\ entropy_boundaries' = SetAt(ZerosLike(energy_boundaries), AnchorIndex, s)
    /\ written' = {Norm(energy_boundaries, AnchorIndex)}
    /\ i' = ChainStart(Len(energy_boundaries.data))
    /\ calls' = <<>>
    /\ purpose' = why
    /\ pc' = "chain"

\* optimize_entropy, line 120: the minimiser evaluates entropy_boundary_badness,
\* whose first line is a call of compute_entropy_given_Smin
MinimizeEval ==
    /\ pc = "optimize"
    /\ evals < MaxEvals
    /\ \E s \in Anchors : EnterChain(s, "badness")
    /\ UNCHANGED <<files, fault, energy_boundaries, mean_energy, lnw, evals, trackvars, betavars>>

\* optimize_entropy, lines 121-122: Smin = res.x, and the final chain
MinimizeReturn ==
    /\ pc = "optimize"
    /\ evals >= 1
    /\ \E s \in Anchors : EnterChain(s, "final")
    /\ UNCHANGED <<files, fault, energy_boundaries, mean_energy, lnw, evals, trackvars, betavars>>

\* one iteration of the loop of compute_entropy_given_Smin, lines 103-105,
\* with the call of optimize_bin_entropy, lines 79-98
ChainStep ==
    /\ pc = "chain"
    /\ i > ChainStop
    /\ IF ~(/\ InRange(energy_boundaries, i - 1)
            /\ InRange(energy_boundaries, i)
            /\ InRange(entropy_boundaries, KnownIndex(i))
            /\ InRange(entropy_boundaries, SolvedIndex(i))
            /\ InRange(lnw, WeightIndex(i)))
       THEN /\ Raise("IndexError")
            /\ UNCHANGED <<entropy_boundaries, written, i, calls>>
       ELSE LET call == [i |-> i,
                         known |-> Norm(entropy_boundaries, KnownIndex(i)),
                         solved |-> Norm(entropy_boundaries, SolvedIndex(i)),
                         E_i_1 |-> At(energy_boundaries, i - 1),
                         E_i |-> At(energy_boundaries, i),
                         lnw_i |-> At(lnw, WeightIndex(i)),
                         S_i |-> At(entropy_boundaries, KnownIndex(i))]
            IN IF ~fn_entropy(call.E_i_1, call.E_i)
               THEN /\ Raise("AssertionError")
                    /\ calls' = Append(calls, [call |-> call, raised |-> TRUE,
                                               sol |-> [success |-> FALSE, x |-> 0],
                                               ret |-> 0])
                    /\ UNCHANGED <<entropy_boundaries, written, i>>
               ELSE \E sol \in RootResults :
                    /\ entropy_boundaries' =
                          SetAt(entropy_boundaries, SolvedIndex(i), optimize_bin_entropy(sol))
                    /\ written' = written \cup {Norm(entropy_boundaries, SolvedIndex(i))}
                    /\ calls' = Append(calls, [call |-> call, raised |-> FALSE,
                                               sol |-> sol,
                                               ret |-> optimize_bin_entropy(sol)])
                    /\ i' = i - 1
                    /\ UNCHANGED <<pc, fault>>
    /\ UNCHANGED <<files, energy_boundaries, mean_energy, lnw, Smin, purpose, evals, trackvars, betavars>>

\* line 106: return entropy_boundaries
ChainReturn ==
    /\ pc = "chain"
    /\ ~(i > ChainStop)
    /\ pc' = IF purpose = "badness" THEN "badness" ELSE "done"
    /\ UNCHANGED <<files, fault, energy_boundaries, mean_energy, lnw, Smin,
                   entropy_boundaries, written, i, calls, purpose, evals, trackvars, betavars>>

\* entropy_boundary_badness, lines 110-117: the indices its loop reads
BadnessReads(n) == UNION {{k, k + 1, k + 2} : k \in 0..(n - 3)}

Badness ==
    /\ pc = "badness"
    /\ IF \E k \in BadnessReads(Len(energy_boundaries.data)) :
              ~(InRange(energy_boundaries, k) /\ InRange(entropy_boundaries, k))
       THEN /\ Raise("IndexError")
            /\ evals' = evals
       ELSE /\ pc' = "optimize"
            /\ evals' = evals + 1
            /\ fault' = fault
    /\ UNCHANGED <<files, energy_boundaries, mean_energy, lnw, Smin,
                   entropy_boundaries, written, i, calls, purpose, trackvars, betavars>>

-----------------------------------------------------------------------------
(* Spec *)

BoundarySeqs == UNION {[1..n -> Energies] : n \in 0..MaxBoundaries}

\* A snapshot of n bins has n+1 boundaries; the files on disk may disagree.  The
\* mean-energy file holds n or n+1 values, the log-weight file n, n+1 or n+2.
Lengths(e, more) == {n \in (Len(e) - 1)..(Len(e) + more) : n >= 0}

Files == UNION {[eb : {e}, me : {Recorded(m) : m \in Lengths(e, 0)},
                 lnw : {Recorded(l) : l \in Lengths(e, 1)}] : e \in BoundarySeqs}

EmptyArray == [ndim |-> 1, data |-> <<>>]

SnapIdle ==
    /\ pc = "load"
    /\ fault = "none"
    /\ energy_boundaries = EmptyArray
    /\ mean_energy = EmptyArray
    /\ lnw = EmptyArray
    /\ Smin = 0
    /\ entropy_boundaries = EmptyArray
    /\ written = {}
    /\ i = 0
    /\ calls = <<>>
    /\ purpose = "none"
    /\ evals = 0

NoSystem == [kind |-> "none"]

TrackIdle ==
    /\ tpc = "next"
    /\ nruns = 0
    /\ run = [arg |-> <<>>, system |-> NoSystem, ckpts |-> {}]
    /\ base = <<>>
    /\ sigma = Bound(1)
    /\ N = Unbound
    /\ mean_erfinv_energy = Unbound
    /\ a = Unbound
    /\ b = Unbound
    /\ e1 = Unbound
    /\ e2 = Unbound
    /\ exact_density_of_states = "none"
    /\ exact_entropy = [fn |-> "none"]
    /\ todo = <<>>
    /\ moves = <<>>

BetaIdle ==
    /\ bpc = "start"
    /\ meanE_over_deltaE = 0
    /\ evaluated = <<>>
    /\ root = [set |-> FALSE]

Init ==
    /\ files \in Files
    /\ SnapIdle
    /\ TrackIdle
    /\ BetaIdle

Next ==
    \/ LoadRun
    \/ LoadCheckpoint
    \/ MinimizeEval
    \/ MinimizeReturn
    \/ ChainStep
    \/ ChainReturn
    \/ Badness

Spec == Init /\ [][Next]_vars

-----------------------------------------------------------------------------
(* Strings: a Python str is the sequence of its code points *)

Str_linear == <<108, 105, 110, 101, 97, 114>>
Str_quadratic == <<113, 117, 97, 100, 114, 97, 116, 105, 99>>
Str_cbor == <<46, 99, 98, 111, 114>>          \* ".cbor"
Str_yaml == <<46, 121, 97, 109, 108>>         \* ".yaml"
Str_sim == <<115, 105, 109>>                  \* "sim"
Chr_slash == <<47>>
Chr_dot == <<46>>

\* needle in hay
Contains(hay, needle) ==
    \E k \in 0..(Len(hay) - Len(needle)) :
        SubSeq(hay, k + 1, k + Len(needle)) = needle

\* s[:-5]
DropLast5(s) == SubSeq(s, 1, Len(s) - 5)

\* str.__lt__: the first differing code point decides, a proper prefix is smaller
StrLess(s, t) ==
    \E k \in 1..(Len(t)) :
        /\ k <= Len(s) + 1
        /\ SubSeq(s, 1, k - 1) = SubSeq(t, 1, k - 1)
        /\ (k = Len(s) + 1 \/ s[k] < t[k])

RECURSIVE SortedStrs(_)
\* sorted(...) of a set of distinct strings
SortedStrs(S) ==
    IF S = {} THEN <<>>
    ELSE LET least == CHOOSE s \in S : \A t \in S \ {s} : StrLess(s, t)
         IN <<least>> \o SortedStrs(S \ {least})

LastIndexOf(s, c) ==
    IF \E k \in 1..Len(s) : s[k] = c
    THEN CHOOSE k \in 1..Len(s) : s[k] = c /\ \A m \in (k + 1)..Len(s) : s[m] # c
    ELSE 0

\* os.path.basename
Basename(f) == SubSeq(f, LastIndexOf(f, Chr_slash[1]) + 1, Len(f))

\* os.path.splitext(f)[0]: cut at the last dot of the last path component
\* (a component's leading dots start no extension; no name here has one)
SplitextRoot(f) ==
    LET dot == LastIndexOf(f, Chr_dot[1])
    IN IF dot > LastIndexOf(f, Chr_slash[1]) + 1 THEN SubSeq(f, 1, dot - 1) ELSE f

RECURSIVE Float(_)
\* float(...) of a string of decimal digits
Float(s) ==
    IF s = <<>> THEN 0
    ELSE 10 * Float(SubSeq(s, 1, Len(s) - 1)) + (s[Len(s)] - 48)

-----------------------------------------------------------------------------
(* The runs: lines 164-168 and 200-271 *)

\* lines 166-167
TrimBase(arg) ==
    IF Contains(arg, Str_cbor) \/ Contains(arg, Str_yaml) THEN DropLast5(arg) ELSE arg

\* lines 207-232: which density of states the run is compared with
SelectDensity(bs, system) ==
    IF Contains(bs, Str_linear) THEN "linear_density_of_states"
    ELSE IF Contains(bs, Str_quadratic) THEN "quadratic_density_of_states"
    ELSE IF system.kind = "Gaussian" THEN "gaussian_density_of_states"
    ELSE IF system.kind = "Erfinv" THEN "erfinv_density_of_states"
    ELSE IF system.kind = "Pieces" THEN "piecewise_density_of_states"
    ELSE "other_density_of_states"

\* line 216
BindSigma(fn, system, old) ==
    IF fn = "gaussian_density_of_states" THEN Bound(system.sigma) ELSE old

\* lines 220-221 binding the parameters only while they are still unbound
BindErfinv_Once(fn, system, old) ==
    IF fn = "erfinv_density_of_states" /\ old.N = Unbound
    THEN [mean_erfinv_energy |-> Bound(system.mean_energy), N |-> Bound(system.N)]
    ELSE old

\* lines 220-221
BindErfinv(fn, system, old) ==
    IF fn = "erfinv_density_of_states"
    THEN [mean_erfinv_energy |-> Bound(system.mean_energy), N |-> Bound(system.N)]
    ELSE old

\* lines 225-228
BindPieces(fn, system, old) ==
    IF fn = "piecewise_density_of_states"
    THEN [a |-> Bound(system.a), b |-> Bound(system.b),
          e1 |-> Bound(system.e1), e2 |-> Bound(system.e2)]
    ELSE old

\* lines 34-49: the module-level names each density of states reads when called
DensityReads(fn, g) ==
    IF fn = "gaussian_density_of_states" THEN <<g.sigma>>
    ELSE IF fn = "erfinv_density_of_states" THEN <<g.N, g.mean_erfinv_energy>>
    ELSE IF fn = "piecewise_density_of_states" THEN <<g.a, g.b, g.e1, g.e2>>
    ELSE <<>>

\* line 235: exact_entropy = np.log(exact_density_of_states(E)), by what decides it
ExactEntropy(fn, g) == [fn |-> fn, params |-> DensityReads(fn, g)]

Globals == [sigma |-> sigma, N |-> N, mean_erfinv_energy |-> mean_erfinv_energy,
            a |-> a, b |-> b, e1 |-> e1, e2 |-> e2]

\* line 239: glob.glob(base+'/*.cbor')
Glob(bs, names) == {bs \o Chr_slash \o nm \o Str_cbor : nm \in names}

\* line 239: the order of the loop
CheckpointOrder(S) == SortedStrs(S)

\* lines 240-241
MyMove(f) == Float(Basename(SplitextRoot(f)))

\* line 237
ResetMoves(old) == <<>>

BaseArgs == {Str_sim, Str_sim \o Str_yaml, Str_linear, Str_sim \o <<45>> \o Str_quadratic}

Systems ==
    [kind : {"Gaussian"}, sigma : {2, 3}]
    \cup [kind : {"Erfinv"}, mean_energy : {0}, N : {4, 8}]
    \cup [kind : {"Pieces"}, a : {1}, b : {2}, e1 : {1}, e2 : {2, 3}]
    \cup [kind : {"Other"}]

\* checkpoint names "5", "20", "100", "50"
CkptNames == {<<53>>, <<50, 48>>, <<49, 48, 48>>, <<53, 48>>}

\* for base in bases (line 200), with the base name of lines 164-168
TakeRun ==
    /\ tpc = "next"
    /\ nruns < MaxRuns
    /\ \E arg \in BaseArgs, system \in Systems :
          /\ run' = [arg |-> arg, system |-> system, ckpts |-> run.ckpts]
          /\ base' = TrimBase(arg)
    /\ nruns' = nruns + 1
    /\ tpc' = "bind"
    /\ UNCHANGED <<sigma, N, mean_erfinv_energy, a, b, e1, e2,
                   exact_density_of_states, exact_entropy, todo, moves, snapvars, betavars>>

\* lines 207-232
Bind ==
    /\ tpc = "bind"
    /\ LET fn == SelectDensity(base, run.system)
           erf == BindErfinv(fn, run.system,
                             [mean_erfinv_energy |-> mean_erfinv_energy, N |-> N])
           pcs == BindPieces(fn, run.system, [a |-> a, b |-> b, e1 |-> e1, e2 |-> e2])
       IN /\ exact_density_of_states' = fn
          /\ sigma' = BindSigma(fn, run.system, sigma)
          /\ mean_erfinv_energy' = erf.mean_erfinv_energy
          /\ N' = erf.N
          /\ a' = pcs.a
          /\ b' = pcs.b
          /\ e1' = pcs.e1
          /\ e2' = pcs.e2
    /\ tpc' = "evaluate"
    /\ UNCHANGED <<nruns, run, base, exact_entropy, todo, moves, snapvars, betavars>>

\* lines 235-239: the exact entropy, the empty series, and the list of checkpoints
Evaluate ==
    /\ tpc = "evaluate"
    /\ exact_entropy' = ExactEntropy(exact_density_of_states, Globals)
    /\ moves' = ResetMoves(moves)
    /\ \E names \in SUBSET CkptNames :
          /\ run' = [run EXCEPT !.ckpts = names]
          /\ todo' = CheckpointOrder(Glob(base, names))
    /\ tpc' = "track"
    /\ UNCHANGED <<nruns, base, sigma, N, mean_erfinv_energy, a, b, e1, e2,
                   exact_density_of_states, snapvars, betavars>>

\* lines 240-271 for one checkpoint file
TrackStep ==
    /\ tpc = "track"
    /\ todo # <<>>
    /\ moves' = Append(moves, MyMove(Head(todo)))
    /\ todo' = Tail(todo)
    /\ UNCHANGED <<tpc, nruns, run, base, sigma, N, mean_erfinv_energy, a, b, e1, e2,
                   exact_density_of_states, exact_entropy, snapvars, betavars>>

\* the checkpoint loop is exhausted
EndRun ==
    /\ tpc = "track"
    /\ todo = <<>>
    /\ tpc' = "next"
    /\ UNCHANGED <<nruns, run, base, sigma, N, mean_erfinv_energy, a, b, e1, e2,
                   exact_density_of_states, exact_entropy, todo, moves, snapvars, betavars>>

InitTrack ==
    /\ files = [eb |-> <<>>, me |-> <<>>, lnw |-> <<>>]
    /\ SnapIdle
    /\ TrackIdle
    /\ BetaIdle

NextTrack ==
    \/ TakeRun
    \/ Bind
    \/ Evaluate
    \/ TrackStep
    \/ EndRun

SpecTrack == InitTrack /\ [][NextTrack]_vars

-----------------------------------------------------------------------------
(* The moment-matching estimator: lines 128-145 *)

\* x and meanE_over_deltaE are floats.  Here they are integers that count halves
\* of 1e-14, so that the 1e-14 of line 129 is 2 and the 1e-6 of line 138 is 2*10^8.
Threshold == 2
TinySeed == 200000000

MaxRatio == 2          \* meanE_over_deltaE is in -MaxRatio..MaxRatio
MaxIterate == 3        \* the root finder's later iterates are in -MaxIterate..MaxIterate
MaxIter == 2           \* iterations the root finder makes after its two seeds

Ratios == (-MaxRatio)..MaxRatio
Iterates == (-MaxIterate)..MaxIterate

\* fn_for_beta, lines 129-131: the expression evaluated at x
fn_for_beta(x, r) ==
    [x |-> x, r |-> r,
     expr |-> IF x < Threshold THEN "0.5*x - x*r" ELSE "x/(1-exp(-x)) - 1 - x*r"]

\* find_beta_deltaE, lines 137-142: the seeds x0, x1
Seeds(r) == IF r = 0 THEN <<TinySeed, -TinySeed>> ELSE <<2 * r, r>>

\* find_beta_deltaE, line 145: return sol.root
find_beta_deltaE(sol) == sol.root

\* line 143: root_scalar starts by evaluating fn_for_beta at x0 and at x1
BetaSeeds ==
    /\ bpc = "start"
    /\ evaluated' = <<fn_for_beta(Seeds(meanE_over_deltaE)[1], meanE_over_deltaE),
                      fn_for_beta(Seeds(meanE_over_deltaE)[2], meanE_over_deltaE)>>
    /\ bpc' = "iterate"
    /\ UNCHANGED <<meanE_over_deltaE, root, snapvars, trackvars>>

\* line 143: one more iterate of the root finder
BetaIterate ==
    /\ bpc = "iterate"
    /\ Len(evaluated) < 2 + MaxIter
    /\ \E x \in Iterates :
          evaluated' = Append(evaluated, fn_for_beta(x, meanE_over_deltaE))
    /\ UNCHANGED <<bpc, meanE_over_deltaE, root, snapvars, trackvars>>

\* lines 143-145: root_scalar returns, converged or not, at its last iterate
BetaReturn ==
    /\ bpc = "iterate"
    /\ \E converged \in BOOLEAN :
          LET sol == [converged |-> converged, root |-> evaluated[Len(evaluated)].x]
          IN root' = [set |-> TRUE, sol |-> sol, ret |-> find_beta_deltaE(sol)]
    /\ bpc' = "returned"
    /\ UNCHANGED <<meanE_over_deltaE, evaluated, snapvars, trackvars>>

InitBeta ==
    /\ files = [eb |-> <<>>, me |-> <<>>, lnw |-> <<>>]
    /\ SnapIdle
    /\ TrackIdle
    /\ bpc = "start"
    /\ meanE_over_deltaE \in Ratios
    /\ evaluated = <<>>
    /\ root = [set |-> FALSE]

NextBeta ==
    \/ BetaSeeds
    \/ BetaIterate
    \/ BetaReturn

SpecBeta == InitBeta /\ [][NextBeta]_vars

-----------------------------------------------------------------------------
(* Properties of the run loop, checked under SpecTrack *)

RunDone == tpc = "track" /\ todo = <<>>

\* C1: the checkpoints of a run are processed in ascending numeric order of their
\* move-count, so the emitted series of moves is sorted ascending.
C1_MovesAscending ==
    tpc = "track" =>
        \A j \in 1..Len(moves) : \A k \in 1..Len(moves) :
            j < k => moves[j] <= moves[k]

\* C5: the density of states chosen for a run is decided by the run's metadata
\* alone: every other base name would have led to the same choice.
C5_SelectionByMetadataOnly ==
    tpc \in {"evaluate", "track"} =>
        \A arg \in BaseArgs :
            SelectDensity(TrimBase(arg), run.system) = exact_density_of_states

\* The run processed alone: from the module's state before the first run.
AloneGlobals(r) ==
    LET fn == SelectDensity(TrimBase(r.arg), r.system)
        erf == BindErfinv(fn, r.system,
                          [mean_erfinv_energy |-> Unbound, N |-> Unbound])
        pcs == BindPieces(fn, r.system,
                          [a |-> Unbound, b |-> Unbound,
                           e1 |-> Unbound, e2 |-> Unbound])
    IN [sigma |-> BindSigma(fn, r.system, Bound(1)),
        N |-> erf.N, mean_erfinv_energy |-> erf.mean_erfinv_energy,
        a |-> pcs.a, b |-> pcs.b, e1 |-> pcs.e1, e2 |-> pcs.e2]

AloneEntropy(r) ==
    ExactEntropy(SelectDensity(TrimBase(r.arg), r.system), AloneGlobals(r))

AloneMoves(r) ==
    LET order == CheckpointOrder(Glob(TrimBase(r.arg), r.ckpts))
    IN [k \in 1..Len(order) |-> MyMove(order[k])]

\* C6: what is computed for a run (the density of states, the parameters it
\* reads, the series of moves) is what the run alone would have given, whatever
\* runs came before it; no parameter read is unbound or left by an earlier run.
C6_RunsIndependent ==
    tpc = "track" =>
        /\ exact_entropy = AloneEntropy(run)
        /\ \A k \in 1..Len(exact_entropy.params) : exact_entropy.params[k] # Unbound
        /\ moves = SubSeq(AloneMoves(run), 1, Len(moves))
        /\ Len(moves) + Len(todo) = Cardinality(run.ckpts)

\* A second run that reads its own parameters while an earlier Gaussian run and an
\* earlier or present Erfinv binding are still in the module's variables.
C6_Witness ==
    /\ RunDone
    /\ nruns = 2
    /\ exact_density_of_states = "erfinv_density_of_states"
    /\ run.system.N = 8
    /\ sigma = Bound(3)
    /\ Len(moves) = 2

-----------------------------------------------------------------------------
(* Properties of one snapshot, checked under Spec *)

Loaded == pc # "load" /\ Len(files.eb) >= 1

Ascending == files.eb[1] < files.eb[Len(files.eb)]

\* element k of out is element k of in, or element len-1-k when flipped
Placed(out, in, flipped) ==
    /\ Len(out) = Len(in)
    /\ \A k \in 0..(Len(in) - 1) :
          out[k + 1] = in[IF flipped THEN Len(in) - k ELSE k + 1]

\* C2: a snapshot whose first boundary is below its last is loaded with the
\* boundaries, the mean energies and the log-weights all reversed; any other
\* snapshot is loaded with all three in the order of the files.  Per run and per
\* checkpoint.
C2_ReversedTogether ==
    Loaded =>
        /\ Placed(energy_boundaries.data, files.eb, Ascending)
        /\ Placed(mean_energy.data, files.me, Ascending)
        /\ Placed(lnw.data, files.lnw, Ascending)

C2_Witness ==
    /\ pc = "optimize"
    /\ Len(files.eb) = 3
    /\ Ascending
    /\ mean_energy.data = <<2, 1>>
    /\ lnw.data = <<2, 1>>

StrictlyDescending(s) == \A k \in 1..(Len(s) - 1) : s[k] > s[k + 1]
StrictlyAscending(s) == \A k \in 1..(Len(s) - 1) : s[k] < s[k + 1]

\* the loaded boundaries are in the normalised order
Descending == StrictlyDescending(energy_boundaries.data)

\* lengths n+1, n, n and strictly monotonic boundaries
WellFormed ==
    /\ Len(mean_energy.data) = Len(energy_boundaries.data) - 1
    /\ Len(lnw.data) = Len(energy_boundaries.data) - 1
    /\ \/ StrictlyDescending(energy_boundaries.data)
       \/ StrictlyAscending(energy_boundaries.data)

\* C3: a snapshot with inconsistent lengths, or with boundaries that are not
\* strictly monotonic once normalised, is rejected with MalformedHistogram before
\* any solver call is made for it: the solver is never called for such a
\* snapshot, and no reconstruction is completed for it.
C3_MalformedRejected ==
    (pc # "load" /\ ~WellFormed) =>
        /\ calls = <<>>
        /\ pc = "done" => fault = "MalformedHistogram"

\* C4: a root finder that ends without converging is reported: the value
\* optimize_bin_entropy returns is never the last iterate of such a run.
\* (Stated for snapshots with strictly descending boundaries.)
C4_NonConvergenceReported ==
    Descending =>
        \A k \in 1..Len(calls) :
            (~calls[k].raised /\ ~calls[k].sol.success) =>
                \/ calls[k].ret # calls[k].sol.x
                \/ fault = "SolverNonConvergence"

\* C7: a boundaries file of one value loads as a one-element sequence, unflipped,
\* and its reconstruction raises nothing and makes no solver call.
C7_ScalarBoundary ==
    Len(files.eb) = 1 =>
        /\ fault = "none"
        /\ pc # "crashed"
        /\ calls = <<>>
        /\ pc # "load" =>
              /\ energy_boundaries = [ndim |-> 1, data |-> files.eb]
              /\ mean_energy.data = files.me
              /\ lnw.data = files.lnw
        /\ pc \in {"chain", "badness", "done"} =>
              /\ Len(entropy_boundaries.data) = 1
              /\ written = {0}

C7_Witness ==
    /\ Len(files.eb) = 1
    /\ pc = "done"
    /\ evals = 1

Returned == pc \in {"badness", "done"}

\* C8: compute_entropy_given_Smin returns with every one of the n+1 boundary
\* entropies assigned, after exactly n solver calls (n >= 1).
\* (Stated for snapshots with strictly descending boundaries.)
C8_EveryBoundaryPopulated ==
    (Returned /\ Descending /\ Len(energy_boundaries.data) >= 2) =>
        /\ written = 0..(Len(energy_boundaries.data) - 1)
        /\ Len(calls) = Len(energy_boundaries.data) - 1

InChain == pc \in {"chain", "badness", "done"}

HighestIndex == CHOOSE k \in 0..(Len(energy_boundaries.data) - 1) :
                    \A m \in 0..(Len(energy_boundaries.data) - 1) :
                        At(energy_boundaries, k) >= At(energy_boundaries, m)

LowestIndex == CHOOSE k \in 0..(Len(energy_boundaries.data) - 1) :
                   \A m \in 0..(Len(energy_boundaries.data) - 1) :
                       At(energy_boundaries, k) <= At(energy_boundaries, m)

\* each solve uses the entropy of the adjacent boundary set just before it
ChainedCalls(anchorAt) ==
    \A k \in 1..Len(calls) :
        /\ calls[k].call.known = IF k = 1 THEN anchorAt ELSE calls[k - 1].call.solved
        /\ calls[k].call.S_i = IF k = 1 THEN Smin ELSE calls[k - 1].ret
        /\ calls[k].call.solved - calls[k].call.known \in {-1, 1}

SolvedEnergy(k) == At(energy_boundaries, calls[k].call.solved)

\* C9 as stated: on a descending snapshot the anchor is at the highest-energy
\* boundary and the solves go on in order of decreasing energy, each from the
\* entropy of the boundary set just before.
C9_AnchorAtHighestEnergy ==
    (InChain /\ Descending /\ Len(energy_boundaries.data) >= 2) =>
        /\ calls = <<>> => written = {HighestIndex}
        /\ ChainedCalls(HighestIndex)
        /\ \A k \in 2..Len(calls) : SolvedEnergy(k) < SolvedEnergy(k - 1)

\* C9 amended: on a descending snapshot the anchor is at the lowest-energy
\* boundary (the last one) and the solves go on in order of increasing energy,
\* each from the entropy of the adjacent lower boundary, set just before.
C9_AnchorAtLowestEnergy ==
    (InChain /\ Descending /\ Len(energy_boundaries.data) >= 2) =>
        /\ calls = <<>> => written = {LowestIndex}
        /\ entropy_boundaries.data[Len(entropy_boundaries.data)] = Smin
        /\ ChainedCalls(LowestIndex)
        /\ \A k \in 1..Len(calls) :
              /\ SolvedEnergy(k) > At(energy_boundaries, calls[k].call.known)
              /\ k > 1 => SolvedEnergy(k) > SolvedEnergy(k - 1)

C9_Witness ==
    /\ pc = "done"
    /\ Descending
    /\ Len(energy_boundaries.data) = 4
    /\ Len(calls) = 2
    /\ calls[1].ret # calls[2].ret

\* C10: every fn_entropy call the chain builder causes has a positive bin width.
C10_BinWidthPositive ==
    /\ fault # "AssertionError"
    /\ \A k \in 1..Len(calls) : calls[k].call.E_i_1 - calls[k].call.E_i > 0

\* n+1 boundaries and n log-weights
Aligned == Len(lnw.data) = Len(energy_boundaries.data) - 1

\* C12: with n+1 boundaries and n log-weights, the solver call for the bin
\* between boundaries i-1 and i (bin i-1 of the n bins) reads a log-weight index
\* inside the log-weight sequence, and reads that bin's recorded log-weight.
C12_WeightOfSameBin ==
    (pc # "load" /\ Descending /\ Aligned) =>
        /\ fault # "IndexError"
        /\ \A k \in 1..Len(calls) :
              calls[k].call.lnw_i = At(lnw, calls[k].call.i - 1)

-----------------------------------------------------------------------------
(* Properties of the moment-matching estimator, checked under SpecBeta *)

Abs(x) == IF x < 0 THEN -x ELSE x

\* C11: fn_for_beta evaluates the linear expression 0.5*x - x*r exactly when
\* |x| < 1e-14, and the general expression for every other x, negative or positive.
C11_LinearBranchOnlyNearZero ==
    \A k \in 1..Len(evaluated) :
        evaluated[k].expr = "0.5*x - x*r" <=> Abs(evaluated[k].x) < Threshold

=============================================================================
